---------------------------- MODULE Spec2Model ----------------------------
(***************************************************************************)
(* ImageModify backend: the Sheet Row Processor (process_sheet), the       *)
(* Automation HTTP Service (run, run_dynamic, health) and the Backend API  *)
(* (automation_run, signup, regenerate_api_key over the users table).      *)
(*                                                                         *)
(* Spec         one process_sheet run over an arbitrary sheet              *)
(* SpecService  the Automation Service's handlers and background tasks     *)
(* SpecBackend  the Backend's handlers on one asyncio event loop           *)
(* SpecWorkers  the handlers' calls of create_user, regenerate_api_key and *)
(*              increment_usage interleaved statement by statement on the  *)
(*              shared users table                                         *)
(* SpecDatabase the same with every public writer of database.py,          *)
(*              update_user included, called by any caller                 *)
(* SpecRender   one call of a function of the Image Compositor, the Text   *)
(*              Layout or the Shape Renderer on an arbitrary input         *)
(* SpecTrigger  the Backend's automation_run with its trigger delivered    *)
(* SpecBatch    runs of process_sheet, on the same worksheet or on         *)
(*              different ones, that share the folder images/edited        *)
(*              to the Automation Service's run handler                    *)
(***************************************************************************)
EXTENDS Integers, Sequences, FiniteSets, TLC

VARIABLES
    \* ---- Row Processor (automation_server/modules/processor.py)
    sheet,          \* the worksheet: a sequence of rows, each a sequence of cells
    fate,           \* per row: what the environment does to compose_image / update_cell
    values,         \* the snapshot sheet.get_all_values() returned
    pc,             \* where process_sheet is
    row_index,      \* the loop's 1-based row index
    composeCalls,   \* the calls made to compose_image, in order
    files,          \* the files written under images/edited
    log,            \* the run's events: <<"composed"|"updated"|"error", row>>
    \* ---- Automation HTTP Service (automation_server/app.py)
    served,         \* how many requests the service has answered
    last,           \* the request answered last, its response and what it loaded
    tasks,          \* the background tasks add_task enqueued, in order
    \* ---- Backend API (app/main.py, app/database.py)
    users,          \* the users table: rows in insertion order (id = position)
    awaiting,       \* automation_run requests suspended in "await trigger_automation"
    runs,           \* how many automation_run requests have been started
    blast,          \* the Backend's last response and the table just before it
    wire,           \* the trigger POSTs sent that the Automation Service has yet to handle
    wk,             \* per worker: the database call it is in and its session's locals
    begun,          \* how many database calls the workers have begun
    \* ---- Image Compositor, Text Layout, Shape Renderer (automation_server/modules)
    fn,             \* the function called
    args,           \* its arguments
    returned,       \* whether the call has returned
    ret,            \* what it returned (and, for the drawing functions, drew)
    \* ---- Row Processor runs that share images/edited (processor.py, app.py)
    worksheets,     \* the worksheets the service can load, by (spreadsheet, title)
    proc,           \* per run of process_sheet: its worksheet, snapshot and position
    disk            \* images/edited: per path, the row whose composite was written last

sheetVars == <<sheet, fate, values, pc, row_index, composeCalls, files, log>>

serviceVars == <<served, last, tasks>>

backendVars == <<users, awaiting, runs, blast, wire>>

workerVars == <<wk, begun>>

renderVars == <<fn, args, returned, ret>>

batchVars == <<worksheets, proc, disk>>

vars == <<sheetVars, serviceVars, backendVars, workerVars, renderVars, batchVars>>

-----------------------------------------------------------------------------
(* Bounds of the model *)

MaxRows == 3

\* Requests the Automation Service answers in one behaviour.
MaxRequests == 2

\* Rows of the sheet a background task works through.
TaskRows == 2

\* automation_run requests the Backend starts in one behaviour.
MaxRuns == 2

\* Database calls the workers begin in one behaviour.
MaxOps == 3

\* Characters of a text handed to the Text Layout.
MaxLen == 5

\* Rows of a worksheet that concurrent runs of process_sheet work through.
BatchRows == 2

-----------------------------------------------------------------------------
(* Row Processor: constants of process_sheet *)

IMAGE_URL_COL == 1
PRICE_COL == 2
OUTPUT_COL == 3

edited_folder == "images/edited"

BASE_URL == "http://host"

\* Cell contents the sheets of the model are built from.
ImageUrls == {"", "a.png"}
PriceTexts == {"$5"}
OutputCells == {"", "old"}

\* A row as get_all_values returns it: zero to three cells.
Rows ==
    {<<>>}
    \cup {<<u>> : u \in ImageUrls}
    \cup {<<u, p>> : u \in ImageUrls, p \in PriceTexts}
    \cup {<<u, p, o>> : u \in ImageUrls, p \in PriceTexts, o \in OutputCells}

Sheets == UNION {[1..n -> Rows] : n \in 0..MaxRows}

\* What the environment does to a row's calls: compose_image raises (the image
\* cannot be opened), update_cell raises (the Sheets API fails), or neither.
Fates == {"ok", "compose_raises", "update_raises"}

\* f"edited_{row_index}.png"
OutputFilename(i) == "edited_" \o ToString(i) \o ".png"

\* os.path.join(edited_folder, output_filename)
OutputPath(i) == edited_folder \o "/" \o OutputFilename(i)

PublicUrlZeroBased(base, i) == base \o "/images/edited/" \o OutputFilename(i - 1)

\* f"{BASE_URL}/images/edited/{output_filename}"
PublicUrl(base, i) == base \o "/images/edited/" \o OutputFilename(i)

SkipRowNever(image_url) == FALSE

\* "if not image_url: continue"
SkipRow(image_url) == image_url = ""

RowErrorAborts(i) == [pc |-> "raised", row_index |-> i]

\* "except Exception as e: print(...); continue": on to the next row
RowErrorNext(i) == [pc |-> "loop", row_index |-> i + 1]

\* The cell at (r, c) of the worksheet s as a reader of the sheet sees it: a
\* cell past the end of its row is an empty cell. (process_sheet itself never
\* reads through this; its row[0] and row[1] raise IndexError, see ReadRow.)
Cell(s, r, c) == IF c <= Len(s[r]) THEN s[r][c] ELSE ""

\* sheet.update_cell(row, col, value): sets one cell, padding the row up to col.
update_cell(s, r, c, v) ==
    LET old == s[r]
        n == IF Len(old) < c THEN c ELSE Len(old)
    IN [s EXCEPT ![r] = [k \in 1..n |-> IF k = c THEN v
                                        ELSE IF k <= Len(old) THEN old[k] ELSE ""]]

\* The row is read without an IndexError and is not skipped.
Composable(vs, i) ==
    /\ Len(vs[i]) >= PRICE_COL
    /\ ~SkipRow(vs[i][IMAGE_URL_COL])

\* A fate is chosen only for the rows that reach compose_image.
FatesOf(s) ==
    {f \in [1..Len(s) -> Fates] :
        \A i \in 1..Len(s) : ~(Len(s[i]) >= PRICE_COL /\ s[i][IMAGE_URL_COL] # "")
                              => f[i] = "ok"}

SheetInit ==
    /\ sheet \in Sheets
    /\ fate \in FatesOf(sheet)
    /\ values = <<>>
    /\ pc = "start"
    /\ row_index = 0
    /\ composeCalls = <<>>
    /\ files = {}
    /\ log = <<>>

\* values = sheet.get_all_values(); os.makedirs(edited_folder, exist_ok=True)
GetAllValues ==
    /\ pc = "start"
    /\ values' = sheet
    /\ row_index' = 1
    /\ pc' = "loop"
    /\ UNCHANGED <<sheet, fate, composeCalls, files, log>>
    /\ UNCHANGED <<serviceVars, backendVars, workerVars, renderVars, batchVars>>

\* The head of one iteration: row[0] and row[1] are read outside the try, then
\* an empty image URL skips the row.
ReadRow ==
    /\ pc = "loop"
    /\ row_index <= Len(values)
    /\ LET row == values[row_index] IN
          IF Len(row) < PRICE_COL
          THEN \* IndexError at row[IMAGE_URL_COL - 1] or row[PRICE_COL - 1]
               /\ pc' = "raised"
               /\ UNCHANGED row_index
          ELSE IF SkipRow(row[IMAGE_URL_COL])
          THEN /\ row_index' = row_index + 1
               /\ UNCHANGED pc
          ELSE /\ pc' = "compose"
               /\ UNCHANGED row_index
    /\ UNCHANGED <<sheet, fate, values, composeCalls, files, log>>
    /\ UNCHANGED <<serviceVars, backendVars, workerVars, renderVars, batchVars>>

\* compose_image(image_path=image_url, price_text=price_text, output_path=output_path)
ComposeImage ==
    /\ pc = "compose"
    /\ LET row == values[row_index]
           call == [row |-> row_index,
                    image_path |-> row[IMAGE_URL_COL],
                    price_text |-> row[PRICE_COL],
                    output_path |-> OutputPath(row_index)]
       IN /\ composeCalls' = Append(composeCalls, call)
          /\ IF fate[row_index] = "compose_raises"
             THEN /\ log' = Append(log, <<"error", row_index>>)
                  /\ pc' = RowErrorNext(row_index).pc
                  /\ row_index' = RowErrorNext(row_index).row_index
                  /\ UNCHANGED files
             ELSE /\ files' = files \cup {call.output_path}
                  /\ log' = Append(log, <<"composed", row_index>>)
                  /\ pc' = "update"
                  /\ UNCHANGED row_index
    /\ UNCHANGED <<sheet, fate, values>>
    /\ UNCHANGED <<serviceVars, backendVars, workerVars, renderVars, batchVars>>

\* sheet.update_cell(row_index, OUTPUT_COL, public_url)
UpdateCell ==
    /\ pc = "update"
    /\ IF fate[row_index] = "update_raises"
       THEN /\ log' = Append(log, <<"error", row_index>>)
            /\ pc' = RowErrorNext(row_index).pc
            /\ row_index' = RowErrorNext(row_index).row_index
            /\ UNCHANGED sheet
       ELSE /\ sheet' = update_cell(sheet, row_index, OUTPUT_COL,
                                    PublicUrl(BASE_URL, row_index))
            /\ log' = Append(log, <<"updated", row_index>>)
            /\ pc' = "loop"
            /\ row_index' = row_index + 1
    /\ UNCHANGED <<fate, values, composeCalls, files>>
    /\ UNCHANGED <<serviceVars, backendVars, workerVars, renderVars, batchVars>>

\* The for loop is exhausted: print("Processing completed.")
LoopEnd ==
    /\ pc = "loop"
    /\ row_index > Len(values)
    /\ pc' = "done"
    /\ UNCHANGED <<sheet, fate, values, row_index, composeCalls, files, log>>
    /\ UNCHANGED <<serviceVars, backendVars, workerVars, renderVars, batchVars>>

SheetNext == GetAllValues \/ ReadRow \/ ComposeImage \/ UpdateCell \/ LoopEnd

-----------------------------------------------------------------------------
(* Runs of process_sheet that share the folder images/edited: the service    *)
(* starts one run per accepted request, each a background task in its own    *)
(* thread, on the worksheet the request named                                *)

\* The runs of one behaviour.
BatchIds == {1, 2}

\* Two worksheets load_sheet can return: the static one and the first
\* worksheet of another spreadsheet.
Loadable == {<<"static-id", "Prices">>, <<"dyn-id", "Data">>}

\* Rows not yet processed: no cell at all, or both columns and no output cell.
BatchRowsOf == {<<>>} \cup {<<u, p>> : u \in ImageUrls, p \in PriceTexts}

BatchSheets == UNION {[1..n -> BatchRowsOf] : n \in 1..BatchRows}

NotStarted == [pc |-> "start", key |-> <<>>, values |-> <<>>, row_index |-> 0]

BatchInit ==
    /\ worksheets \in [Loadable -> BatchSheets]
    /\ proc = [r \in BatchIds |-> NotStarted]
    /\ disk = <<>>

BatchIdle ==
    /\ worksheets = <<>>
    /\ proc = <<>>
    /\ disk = <<>>

BatchFrame == UNCHANGED <<sheetVars, serviceVars, backendVars, workerVars, renderVars>>

\* process_sheet(sheet, BASE_URL) begins: values = sheet.get_all_values()
BatchGetAllValues ==
    /\ \E r \in BatchIds, key \in Loadable :
          /\ proc[r].pc = "start"
          /\ proc' = [proc EXCEPT ![r] = [pc |-> "loop", key |-> key,
                                          values |-> worksheets[key],
                                          row_index |-> 1]]
    /\ UNCHANGED <<worksheets, disk>>
    /\ BatchFrame

\* The head of one iteration, as in ReadRow.
BatchReadRow ==
    /\ \E r \in BatchIds :
          /\ proc[r].pc = "loop"
          /\ proc[r].row_index <= Len(proc[r].values)
          /\ LET row == proc[r].values[proc[r].row_index] IN
                IF Len(row) < PRICE_COL
                THEN proc' = [proc EXCEPT ![r].pc = "raised"]
                ELSE IF SkipRow(row[IMAGE_URL_COL])
                THEN proc' = [proc EXCEPT ![r].row_index = @ + 1]
                ELSE proc' = [proc EXCEPT ![r].pc = "compose"]
    /\ UNCHANGED <<worksheets, disk>>
    /\ BatchFrame

\* compose_image(..., output_path=output_path) writes the file at output_path,
\* or raises and the loop goes on to the next row.
BatchComposeImage ==
    /\ \E r \in BatchIds, raises \in BOOLEAN :
          LET i == proc[r].row_index IN
          /\ proc[r].pc = "compose"
          /\ IF raises
             THEN /\ proc' = [proc EXCEPT ![r].pc = RowErrorNext(i).pc,
                                          ![r].row_index = RowErrorNext(i).row_index]
                  /\ UNCHANGED disk
             ELSE /\ disk' = (OutputPath(i) :> [sheet |-> proc[r].key, row |-> i])
                                @@ disk
                  /\ proc' = [proc EXCEPT ![r].pc = "update"]
    /\ UNCHANGED worksheets
    /\ BatchFrame

\* sheet.update_cell(row_index, OUTPUT_COL, public_url) on the run's worksheet,
\* or it raises and the loop goes on to the next row.
BatchUpdateCell ==
    /\ \E r \in BatchIds, raises \in BOOLEAN :
          LET i == proc[r].row_index IN
          /\ proc[r].pc = "update"
          /\ IF raises
             THEN /\ proc' = [proc EXCEPT ![r].pc = RowErrorNext(i).pc,
                                          ![r].row_index = RowErrorNext(i).row_index]
                  /\ UNCHANGED worksheets
             ELSE /\ worksheets' =
                        [worksheets EXCEPT ![proc[r].key] =
                            update_cell(@, i, OUTPUT_COL, PublicUrl(BASE_URL, i))]
                  /\ proc' = [proc EXCEPT ![r].pc = "loop",
                                          ![r].row_index = i + 1]
    /\ UNCHANGED disk
    /\ BatchFrame

\* The for loop is exhausted: print("Processing completed.")
BatchLoopEnd ==
    /\ \E r \in BatchIds :
          /\ proc[r].pc = "loop"
          /\ proc[r].row_index > Len(proc[r].values)
          /\ proc' = [proc EXCEPT ![r].pc = "done"]
    /\ UNCHANGED <<worksheets, disk>>
    /\ BatchFrame

BatchNext ==
    \/ BatchGetAllValues
    \/ BatchReadRow
    \/ BatchComposeImage
    \/ BatchUpdateCell
    \/ BatchLoopEnd

-----------------------------------------------------------------------------
(* Row Processor: the claims *)

Logged(kind, i) == \E k \in 1..Len(log) : log[k] = <<kind, i>>

LogPos(kind, i) == CHOOSE k \in 1..Len(log) : log[k] = <<kind, i>>

\* The row has both columns and a non-empty image URL, as the claims word it.
HasImageUrl(i) == Len(values[i]) >= 2 /\ values[i][1] # ""

\* BASE_URL + "/images/edited/edited_<row>.png", as the claims word it.
StatedUrl(i) == BASE_URL \o "/images/edited/edited_" \o ToString(i) \o ".png"

\* C1: a compose_image or update_cell exception at row k never aborts the
\* batch: process_sheet stops early only on a row too short to be read, and
\* every row the loop has passed that has an image URL and whose compose and
\* cell write did not raise holds its output URL, whatever happened to the
\* other rows.
C1_RowFailureNeverAbortsBatch ==
    /\ pc = "raised" =>
          /\ row_index \in 1..Len(values)
          /\ Len(values[row_index]) < 2
    /\ pc # "start" =>
          \A i \in 1..Len(values) :
              (i < row_index /\ HasImageUrl(i) /\ fate[i] = "ok")
                  => Cell(sheet, i, 3) = StatedUrl(i)

\* A finished run of three rows where row k failed and a row before it and a
\* row after it were updated.
C1_Witness ==
    /\ pc = "done"
    /\ \E k \in 1..Len(values) :
          /\ Logged("error", k)
          /\ \E j \in 1..Len(values) : j < k /\ Logged("updated", j)
          /\ \E j \in 1..Len(values) : j > k /\ Logged("updated", j)

\* C2: a row whose image-URL field is empty is never passed to compose_image
\* and its output cell is never written; the row stays as it was.
C2_EmptyUrlRowNeverComposed ==
    pc # "start" =>
        \A i \in 1..Len(values) :
            (Len(values[i]) >= 1 /\ values[i][1] = "") =>
                /\ \A k \in 1..Len(composeCalls) :
                      composeCalls[k].row # i /\ composeCalls[k].image_path # ""
                /\ ~Logged("updated", i)
                /\ sheet[i] = values[i]

\* A finished run that skipped an empty-URL row between two composed rows.
C2_Witness ==
    /\ pc = "done"
    /\ \E i \in 1..Len(values) :
          /\ Len(values[i]) >= 2 /\ values[i][1] = ""
          /\ \E j \in 1..Len(values) : j < i /\ Logged("composed", j)
          /\ \E j \in 1..Len(values) : j > i /\ Logged("composed", j)

\* What C3 says of every row but the condition under which it is written.
C3_Rest ==
    /\ \A i \in 1..Len(values) :
          Logged("updated", i) =>
              /\ Cell(sheet, i, 3) = StatedUrl(i)
              /\ Logged("composed", i)
              /\ LogPos("composed", i) < LogPos("updated", i)
    /\ Len(sheet) = Len(values)
    /\ \A i \in 1..Len(values) :
          /\ ~Logged("updated", i) => sheet[i] = values[i]
          /\ \A c \in 1..3 : c # 3 => Cell(sheet, i, c) = Cell(values, i, c)

\* C3 as stated: after process_sheet finishes, the rows written are exactly
\* the rows with a non-empty image URL whose composition succeeded; each holds
\* BASE_URL/images/edited/edited_<row>.png, written after compose_image
\* returned; every other cell is unchanged.
C3_AsStated ==
    pc = "done" =>
        /\ \A i \in 1..Len(values) :
              Logged("updated", i) <=> (HasImageUrl(i) /\ fate[i] # "compose_raises")
        /\ C3_Rest

\* C3 amended: the rows written are exactly the rows with a non-empty image
\* URL whose composition succeeded and whose update_cell call did not raise;
\* each holds BASE_URL/images/edited/edited_<row>.png, written after
\* compose_image returned; every other cell is unchanged.
C3_WrittenIffComposedAndStored ==
    pc = "done" =>
        /\ \A i \in 1..Len(values) :
              Logged("updated", i) <=> (HasImageUrl(i) /\ fate[i] = "ok")
        /\ C3_Rest

\* The spec's end-to-end case: rows (img, ""-URL, img), rows 1 and 3 written
\* over an older value.
C3_Witness ==
    /\ pc = "done"
    /\ Len(values) = 3
    /\ values[2] = <<"", "$5">>
    /\ Logged("updated", 1) /\ Logged("updated", 3)
    /\ Cell(values, 1, 3) = "old"
    /\ Cell(sheet, 1, 3) = StatedUrl(1)
    /\ Cell(sheet, 3, 3) = StatedUrl(3)

\* C17 as stated: whichever step of a row raises (reading the image-URL and
\* price-text columns, compose_image, update_cell), the failure is recorded
\* and the loop goes on to the next row: no row's exception escapes
\* process_sheet, also for a row with fewer than two columns, and every row
\* the loop has passed whose step raised has its failure recorded.
C17_AsStated ==
    /\ pc # "raised"
    /\ pc # "start" =>
          \A i \in 1..Len(values) :
              (i < row_index /\ (Len(values[i]) < 2 \/ fate[i] # "ok"))
                  => Logged("error", i)

-----------------------------------------------------------------------------
(* Automation HTTP Service: app.py *)

\* Python's None (an absent header, an absent sheet_name).
None == "<None>"

APP_API_KEY == "secret"
STATIC_SHEET_ID == "static-id"
STATIC_SHEET_NAME == "Prices"

\* The spreadsheets the service account can open, each with its worksheet
\* titles in order (sheet1 is the first).
Drive ==
    ("static-id" :> <<"Sheet1", "Prices">>) @@ ("dyn-id" :> <<"Data", "Prices">>)

\* What a caller can send.
ApiKeys == {None, "wrong", APP_API_KEY}
SheetIds == {"", "static-id", "dyn-id", "gone-id"}
SheetNames == {None, "", "Prices", "Nope"}

allowedWithHealth == {"/openapi.json", "/docs", "/redoc", "/docs/oauth2-redirect", "/health"}

\* allowed = ["/openapi.json", "/docs", "/redoc", "/docs/oauth2-redirect"]
allowed == {"/openapi.json", "/docs", "/redoc", "/docs/oauth2-redirect"}

verify_api_key_unless_absent(x_api_key, path) ==
    IF path \in allowed THEN TRUE
    ELSE IF x_api_key # None /\ x_api_key # APP_API_KEY THEN FALSE
    ELSE TRUE

\* verify_api_key: TRUE when it returns, FALSE when it raises HTTPException(401).
verify_api_key(x_api_key, path) ==
    IF path \in allowed THEN TRUE
    ELSE IF x_api_key # APP_API_KEY THEN FALSE
    ELSE TRUE

\* Python truthiness of an optional string: "if not sheet_id", "if sheet_name".
Falsy(v) == v = None \/ v = ""

RangeOf(seq) == {seq[k] : k \in 1..Len(seq)}

\* load_sheet: the worksheet it returns, or a raise (open_by_key on an unknown
\* id, worksheet on an unknown title).
load_sheet(sheet_id, sheet_name) ==
    LET static == Falsy(sheet_id)
        sid == IF static THEN STATIC_SHEET_ID ELSE sheet_id
        sname == IF static THEN STATIC_SHEET_NAME ELSE sheet_name
    IN  IF sid \notin DOMAIN Drive
        THEN [raised |-> TRUE, id |-> sid, worksheet |-> None]
        ELSE IF ~Falsy(sname)
        THEN IF sname \in RangeOf(Drive[sid])
             THEN [raised |-> FALSE, id |-> sid, worksheet |-> sname]
             ELSE [raised |-> TRUE, id |-> sid, worksheet |-> sname]
        ELSE [raised |-> FALSE, id |-> sid, worksheet |-> Drive[sid][1]]

Unauthorized == [status |-> 401, body |-> [detail |-> "Unauthorized"]]

\* An exception that escapes a handler: app.py registers no exception handler,
\* so the framework answers 500 with the plain text "Internal Server Error"
\* (a body that is not JSON and has no "detail").
ServerError == [status |-> 500, body |-> [plain_text |-> "Internal Server Error"]]

AddTaskRunInline(q, origin, ws) ==
    Append(q, [origin |-> origin, id |-> ws.id, worksheet |-> ws.worksheet,
               state |-> "done", rows_done |-> TaskRows])

\* background_tasks.add_task(process_sheet, sheet, BASE_URL): the run is queued
\* and starts after the response has been sent.
AddTask(q, origin, ws) ==
    Append(q, [origin |-> origin, id |-> ws.id, worksheet |-> ws.worksheet,
               state |-> "queued", rows_done |-> 0])

\* The state a handler leaves: the request, its response, the worksheet it
\* loaded (none: <<>>), and how far its own task had got when it answered.
Answered(req, resp, loaded) ==
    /\ served' = served + 1
    /\ last' = [req |-> req, status |-> resp.status, body |-> resp.body,
                loaded |-> loaded,
                rows_at_ack |-> IF Len(tasks') > Len(tasks)
                                THEN tasks'[Len(tasks')].rows_done ELSE 0]

NoPayload == [sheet_id |-> None, sheet_name |-> None]

\* The JSON bodies a caller can send to /run-dynamic; sheet_id None is a body
\* without a sheet_id, or with null for it.
Bodies == [sheet_id : SheetIds \cup {None}, sheet_name : SheetNames]

\* class DynamicRunPayload(BaseModel): sheet_id: str; sheet_name: str | None
\* = None. TRUE when the body validates.
DynamicRunPayload(body) == body.sheet_id # None

\* The framework's answer to a body that DynamicRunPayload refuses, sent
\* before the handler's own statements run; detail is the list of validation
\* errors, kept here by its kind.
UnprocessableEntity == [status |-> 422, body |-> [detail |-> "validation errors"]]

\* The framework's answer to a path that names no file under the mount.
NotFound == [status |-> 404, body |-> [detail |-> "Not Found"]]

\* run(background_tasks, x_api_key, request): what the handler does to the
\* service for a request that carries the header value key.
RunHandler(key) ==
    LET req == [path |-> "/run", x_api_key |-> key, payload |-> NoPayload]
        ws == load_sheet(None, None)
    IN  IF ~verify_api_key(key, req.path)
        THEN /\ UNCHANGED tasks
             /\ Answered(req, Unauthorized, <<>>)
        ELSE IF ws.raised
        THEN /\ UNCHANGED tasks
             /\ Answered(req, ServerError, <<>>)
        ELSE /\ tasks' = AddTask(tasks, served + 1, ws)
             /\ Answered(req,
                         [status |-> 200,
                          body |-> [status |-> "processing_started",
                                    mode |-> "static"]],
                         <<[id |-> ws.id, worksheet |-> ws.worksheet]>>)

\* POST /run
Run ==
    /\ served < MaxRequests
    /\ \E key \in ApiKeys : RunHandler(key)
    /\ UNCHANGED <<batchVars, sheetVars, backendVars, workerVars, renderVars>>

\* POST /run-dynamic: the framework validates the body as the handler's
\* payload parameter before it calls run_dynamic, whose first statement is
\* the key check.
RunDynamic ==
    /\ served < MaxRequests
    /\ \E key \in ApiKeys, payload \in Bodies :
          LET req == [path |-> "/run-dynamic", x_api_key |-> key, payload |-> payload]
              ws == load_sheet(payload.sheet_id, payload.sheet_name)
          IN  IF ~DynamicRunPayload(payload)
              THEN /\ UNCHANGED tasks
                   /\ Answered(req, UnprocessableEntity, <<>>)
              ELSE IF ~verify_api_key(key, req.path)
              THEN /\ UNCHANGED tasks
                   /\ Answered(req, Unauthorized, <<>>)
              ELSE IF ws.raised
              THEN /\ UNCHANGED tasks
                   /\ Answered(req, ServerError, <<>>)
              ELSE /\ tasks' = AddTask(tasks, served + 1, ws)
                   /\ Answered(req,
                               [status |-> 200,
                                body |-> [status |-> "processing_started",
                                          mode |-> "dynamic",
                                          sheet_id |-> payload.sheet_id,
                                          sheet_name |-> payload.sheet_name]],
                               <<[id |-> ws.id, worksheet |-> ws.worksheet]>>)
    /\ UNCHANGED <<batchVars, sheetVars, backendVars, workerVars, renderVars>>

\* GET /health
Health ==
    /\ served < MaxRequests
    /\ \E key \in ApiKeys :
          LET req == [path |-> "/health", x_api_key |-> key, payload |-> NoPayload]
          IN  /\ UNCHANGED tasks
              /\ IF ~verify_api_key(key, req.path)
                 THEN Answered(req, Unauthorized, <<>>)
                 ELSE Answered(req, [status |-> 200, body |-> [status |-> "ok"]], <<>>)
    /\ UNCHANGED <<batchVars, sheetVars, backendVars, workerVars, renderVars>>

\* GET /openapi.json: openapi_override calls no key check
OpenApi ==
    /\ served < MaxRequests
    /\ \E key \in ApiKeys :
          LET req == [path |-> "/openapi.json", x_api_key |-> key, payload |-> NoPayload]
          IN  /\ UNCHANGED tasks
              /\ Answered(req, [status |-> 200, body |-> [openapi |-> "schema"]], <<>>)
    /\ UNCHANGED <<batchVars, sheetVars, backendVars, workerVars, renderVars>>

\* GET /images/edited/edited_1.png: app.mount("/images", StaticFiles(...))
\* serves the files of the images directory; no handler and no key check
\* stand before it. Whether the file is there is that of the directory.
StaticImages ==
    /\ served < MaxRequests
    /\ \E key \in ApiKeys, present \in BOOLEAN :
          LET req == [path |-> "/" \o OutputPath(1), x_api_key |-> key,
                      payload |-> NoPayload]
          IN  /\ UNCHANGED tasks
              /\ IF present
                 THEN Answered(req, [status |-> 200,
                                     body |-> [file |-> OutputPath(1)]], <<>>)
                 ELSE Answered(req, NotFound, <<>>)
    /\ UNCHANGED <<batchVars, sheetVars, backendVars, workerVars, renderVars>>

\* A queued process_sheet run progresses on its own thread, after and apart
\* from the response: it starts, works through the rows, and ends or raises.
BackgroundTask ==
    /\ \E k \in 1..Len(tasks) :
          LET t == tasks[k] IN
          \/ /\ t.state = "queued"
             /\ tasks' = [tasks EXCEPT ![k].state = "running"]
          \/ /\ t.state = "running" /\ t.rows_done < TaskRows
             /\ tasks' = [tasks EXCEPT ![k].rows_done = t.rows_done + 1]
          \/ /\ t.state = "running" /\ t.rows_done < TaskRows
             /\ tasks' = [tasks EXCEPT ![k].state = "raised"]
          \/ /\ t.state = "running" /\ t.rows_done = TaskRows
             /\ tasks' = [tasks EXCEPT ![k].state = "done"]
    /\ UNCHANGED <<served, last>>
    /\ UNCHANGED <<batchVars, sheetVars, backendVars, workerVars, renderVars>>

NoRequest == [path |-> "", x_api_key |-> None, payload |-> NoPayload]

ServiceInit ==
    /\ served = 0
    /\ last = [req |-> NoRequest, status |-> 0, body |-> [status |-> ""],
               loaded |-> <<>>, rows_at_ack |-> 0]
    /\ tasks = <<>>

SheetIdle ==
    /\ sheet = <<>>
    /\ fate = <<>>
    /\ values = <<>>
    /\ pc = "idle"
    /\ row_index = 0
    /\ composeCalls = <<>>
    /\ files = {}
    /\ log = <<>>

ServiceNext == Run \/ RunDynamic \/ Health \/ OpenApi \/ StaticImages \/ BackgroundTask

-----------------------------------------------------------------------------
(* Automation HTTP Service: the claims *)

KeyCheckedPaths == {"/run", "/run-dynamic", "/health"}

DocumentationPaths == {"/openapi.json", "/docs", "/redoc", "/docs/oauth2-redirect"}

TasksOf(n) == {k \in 1..Len(tasks) : tasks[k].origin = n}

\* C4 as stated: a request to POST /run, POST /run-dynamic or GET /health
\* whose x-api-key is not the shared secret is answered 401, loads no sheet
\* and enqueues no Row Processor run; and the documentation paths are the only
\* ones the service answers without the key check, so that a request with
\* another x-api-key to any other path is answered 401.
C4_AsStated ==
    (served > 0 /\ last.req.x_api_key # APP_API_KEY) =>
        /\ last.req.path \in KeyCheckedPaths =>
              /\ last.status = 401
              /\ last.loaded = <<>>
              /\ TasksOf(served) = {}
        /\ last.req.path \notin DocumentationPaths => last.status = 401

\* C4 amended: a request to POST /run, POST /run-dynamic or GET /health whose
\* x-api-key is not the shared secret is refused, loads no sheet and enqueues
\* no Row Processor run; it is answered 401, except that a POST /run-dynamic
\* whose body the payload model refuses is answered 422 by the body
\* validation, which comes before the key check and answers so whatever the
\* key. A request with another x-api-key is answered without the key check
\* on the documentation paths and under the /images static mount only.
C4_WrongKeyRefused ==
    served > 0 =>
        LET refused_body == /\ last.req.path = "/run-dynamic"
                            /\ last.req.payload.sheet_id = None
        IN  /\ (last.req.path \in KeyCheckedPaths /\ last.req.x_api_key # APP_API_KEY) =>
                  /\ last.status = IF refused_body THEN 422 ELSE 401
                  /\ last.loaded = <<>>
                  /\ TasksOf(served) = {}
            /\ refused_body => last.status = 422 /\ TasksOf(served) = {}
            /\ (last.req.x_api_key # APP_API_KEY /\ last.status \notin {401, 422}) =>
                  last.req.path \in DocumentationPaths \cup {"/images/edited/edited_1.png"}

\* A run-dynamic request without the header, rejected after an earlier
\* request was accepted and enqueued its run.
C4_Witness ==
    /\ served = 2
    /\ last.req.path = "/run-dynamic"
    /\ last.req.x_api_key = None
    /\ last.req.payload.sheet_id # None
    /\ last.status = 401
    /\ Len(tasks) = 1

\* C5 as stated: GET /health answers {"status": "ok"} whatever x-api-key the
\* request carries, also none or a wrong one.
C5_AsStated ==
    (served > 0 /\ last.req.path = "/health") =>
        /\ last.status = 200
        /\ last.body = [status |-> "ok"]

\* C5 amended: the health endpoint is not open: GET /health answers
\* {"status": "ok"} exactly when x-api-key equals the shared secret, and 401
\* Unauthorized when the header is absent or wrong.
C5_HealthRequiresKey ==
    (served > 0 /\ last.req.path = "/health") =>
        IF last.req.x_api_key = APP_API_KEY
        THEN last.status = 200 /\ last.body = [status |-> "ok"]
        ELSE last.status = 401 /\ last.body = [detail |-> "Unauthorized"]

\* A health request that carries no x-api-key header, answered 401.
C5_Witness ==
    /\ served > 0
    /\ last.req.path = "/health"
    /\ last.req.x_api_key = None
    /\ last.status = 401

\* The acknowledgement payload of a run request, as the handlers word it.
StatedAck(req) ==
    IF req.path = "/run"
    THEN [status |-> "processing_started", mode |-> "static"]
    ELSE [status |-> "processing_started", mode |-> "dynamic",
          sheet_id |-> req.payload.sheet_id, sheet_name |-> req.payload.sheet_name]

\* C6: an accepted (200) POST /run or POST /run-dynamic has enqueued exactly
\* one Row Processor run, for the sheet it resolved; no row of that run had
\* been processed when the acknowledgement was returned; and the
\* acknowledgement is the one payload fixed by the request, however far the
\* run has got and however it ended.
C6_AckWithoutWaiting ==
    /\ (served > 0 /\ last.req.path \in {"/run", "/run-dynamic"}
                   /\ last.status = 200) =>
          /\ Cardinality(TasksOf(served)) = 1
          /\ Len(last.loaded) = 1
          /\ \A k \in TasksOf(served) :
                [id |-> tasks[k].id, worksheet |-> tasks[k].worksheet] = last.loaded[1]
          /\ last.rows_at_ack = 0
          /\ last.body = StatedAck(last.req)
    /\ \A j, k \in 1..Len(tasks) : j # k => tasks[j].origin # tasks[k].origin
    /\ \A k \in 1..Len(tasks) : tasks[k].origin \in 1..served

\* An acknowledged dynamic run whose batch later raised, after an earlier
\* acknowledged run finished.
C6_Witness ==
    /\ last.req.path = "/run-dynamic"
    /\ last.status = 200
    /\ Len(tasks) = 2
    /\ tasks[1].state = "done"
    /\ tasks[2].origin = served
    /\ tasks[2].state = "raised"
    /\ tasks[2].rows_done = 1

\* C7 as stated: POST /run resolves to the static sheet; POST /run-dynamic
\* resolves to the spreadsheet with the caller's sheet_id, for every sheet_id
\* the payload accepts, and to the worksheet named sheet_name when one is
\* given, the first worksheet otherwise.
C7_AsStated ==
    (served > 0 /\ last.status = 200) =>
        /\ last.req.path = "/run" =>
              last.loaded[1] = [id |-> STATIC_SHEET_ID, worksheet |-> STATIC_SHEET_NAME]
        /\ last.req.path = "/run-dynamic" =>
              /\ last.loaded[1].id = last.req.payload.sheet_id
              /\ last.loaded[1].worksheet =
                    IF last.req.payload.sheet_name \notin {None, ""}
                    THEN last.req.payload.sheet_name
                    ELSE Drive[last.req.payload.sheet_id][1]

-----------------------------------------------------------------------------
(* Backend API: app/database.py, app/main.py, app/integrations *)

Emails == {"a@x.io", "b@x.io"}
Passwords == {"p", "q"}

\* The password a signup in the model sets (confirmPassword ranges over Passwords).
SignupPasswords == {"p"}

\* The values secrets.token_hex(24) draws from: few, so that draws collide.
Keys == {"k1", "k2", "k3"}

\* What the POST to AUTOMATION_URL comes to: a status code, or an exception.
RemoteOutcomes == {"200", "401", "timeout", "unreachable"}

\* A bearer token: decode_access_token returns its payload, or None.
Tokens == {[valid |-> FALSE, sub |-> ""]} \cup {[valid |-> TRUE, sub |-> e] : e \in Emails}

\* hash_password: a bcrypt digest of the password, never the password.
hash_password(password) == [bcrypt |-> password]

\* verify_password: bcrypt.checkpw of the password against the stored digest.
verify_password(plain_password, hashed_password) ==
    hashed_password = [bcrypt |-> plain_password]

\* User(email=..., hashed_password=..., api_key=...) with the column defaults.
NewUser(email, password, key) ==
    [email |-> email, hashed_password |-> hash_password(password), api_key |-> key,
     monthly_edits |-> 0, total_edits |-> 0, plan_name |-> "Free"]

\* db.query(User).filter(User.email == email).first(): its id, or 0 for None.
ByEmail(tbl, email) ==
    IF \E i \in 1..Len(tbl) : tbl[i].email = email
    THEN CHOOSE i \in 1..Len(tbl) :
            /\ tbl[i].email = email
            /\ \A j \in 1..Len(tbl) : tbl[j].email = email => i <= j
    ELSE 0

\* session.query(User).filter(User.api_key == key).first() is not None
KeyExists(tbl, key) == \E i \in 1..Len(tbl) : tbl[i].api_key = key

\* _generate_api_key: the keys its loop can return on this table.
_generate_api_key(tbl) == {k \in Keys : ~KeyExists(tbl, k)}

UniqueUnchecked(tbl, id, email, key) == TRUE

\* The UNIQUE constraints on users.email and users.api_key, as the INSERT or
\* UPDATE of row id (0: a new row) meets them at commit.
Unique(tbl, id, email, key) ==
    \A i \in 1..Len(tbl) : i # id => (tbl[i].email # email /\ tbl[i].api_key # key)

increment_usage_on_success(tbl, email, edits, result) ==
    LET id == ByEmail(tbl, email) IN
    IF id = 0 \/ ~result THEN tbl
    ELSE [tbl EXCEPT ![id].monthly_edits = @ + edits, ![id].total_edits = @ + edits]

\* increment_usage(email, edits); result is the trigger's, which it never sees.
increment_usage(tbl, email, edits, result) ==
    LET id == ByEmail(tbl, email) IN
    IF id = 0 THEN tbl
    ELSE [tbl EXCEPT ![id].monthly_edits = @ + edits, ![id].total_edits = @ + edits]

\* trigger_automation: True on a 200, False on any other status or exception.
trigger_automation(outcome) == outcome = "200"

\* get_current_user: 401 on a bad token, 404 on an unknown email, else the user.
get_current_user(tbl, token) ==
    IF ~token.valid THEN [status |-> 401, id |-> 0]
    ELSE IF ByEmail(tbl, token.sub) = 0 THEN [status |-> 404, id |-> 0]
    ELSE [status |-> 200, id |-> ByEmail(tbl, token.sub)]

AuthError(status) ==
    IF status = 401 THEN [detail |-> "Invalid authentication credentials"]
    ELSE [detail |-> "User not found"]

\* global_exception_handler
InternalError == [detail |-> "Internal server error"]

Responded(op, email, status, body, outcome) ==
    blast' = [op |-> op, email |-> email, password |-> "", status |-> status,
              body |-> body, outcome |-> outcome, before |-> users]

authenticate_user_skips_password(tbl, email, password) == ByEmail(tbl, email)

\* authenticate_user: the user's id, or 0 for None.
authenticate_user(tbl, email, password) ==
    LET id == ByEmail(tbl, email) IN
    IF id # 0 /\ verify_password(password, tbl[id].hashed_password) THEN id ELSE 0

\* POST /auth/login. A failed authentication answers 400 with one fixed
\* detail; after a successful one create_access_token raises AttributeError
\* (settings.access_token_expires) and the global handler answers 500.
Login ==
    /\ \E email \in Emails, password \in Passwords :
          IF authenticate_user(users, email, password) = 0
          THEN blast' = [op |-> "login", email |-> email, password |-> password,
                         status |-> 400,
                         body |-> [detail |-> "Incorrect email or password"],
                         outcome |-> "", before |-> users]
          ELSE blast' = [op |-> "login", email |-> email, password |-> password,
                         status |-> 500, body |-> InternalError,
                         outcome |-> "", before |-> users]
    /\ UNCHANGED <<users, awaiting, runs, wire>>
    /\ UNCHANGED <<batchVars, sheetVars, serviceVars, workerVars, renderVars>>

\* POST /auth/signup. create_access_token reads settings.access_token_expires,
\* which Settings does not define: after create_user the handler raises
\* AttributeError and the global handler answers 500.
Signup ==
    /\ \E email \in Emails, password \in SignupPasswords, confirm \in Passwords :
          IF password # confirm
          THEN /\ Responded("signup", email, 400, [detail |-> "Passwords do not match"], "")
               /\ UNCHANGED users
          ELSE IF ByEmail(users, email) # 0
          THEN /\ Responded("signup", email, 400, [detail |-> "User already exists"], "")
               /\ UNCHANGED users
          ELSE \E key \in _generate_api_key(users) :
               /\ Unique(users, 0, email, key)
               /\ users' = Append(users, NewUser(email, password, key))
               /\ Responded("signup", email, 500, InternalError, "")
    /\ UNCHANGED <<awaiting, runs, wire>>
    /\ UNCHANGED <<batchVars, sheetVars, serviceVars, workerVars, renderVars>>

\* GET /auth/google/callback. Building the token request reads
\* settings.GOOGLE_CLIENT_ID, which Settings does not define: with a code the
\* handler raises AttributeError before it looks any user up.
GoogleCallback ==
    /\ \E code \in {None, "code"} :
          IF code = None
          THEN Responded("google_callback", "", 400, [detail |-> "Missing Google code"], "")
          ELSE Responded("google_callback", "", 500, InternalError, "")
    /\ UNCHANGED <<users, awaiting, runs, wire>>
    /\ UNCHANGED <<batchVars, sheetVars, serviceVars, workerVars, renderVars>>

\* POST /user/api-key/regenerate
RegenerateApiKey ==
    /\ \E token \in Tokens :
          LET who == get_current_user(users, token) IN
          IF who.status # 200
          THEN /\ Responded("regenerate", token.sub, who.status, AuthError(who.status), "")
               /\ UNCHANGED users
          ELSE \E key \in _generate_api_key(users) :
               /\ Unique(users, who.id, users[who.id].email, key)
               /\ users' = [users EXCEPT ![who.id].api_key = key]
               /\ Responded("regenerate", token.sub, 200, [apiKey |-> key], "")
    /\ UNCHANGED <<awaiting, runs, wire>>
    /\ UNCHANGED <<batchVars, sheetVars, serviceVars, workerVars, renderVars>>

\* POST /automation/run up to "await client.post(...)" in trigger_automation:
\* get_current_user, then the handler with the user's api_key. id numbers the
\* request; reply is the status the Automation Service has answered it with,
\* "" while it has not.
AutomationRunBegin ==
    /\ runs < MaxRuns
    /\ runs' = runs + 1
    /\ \E token \in Tokens :
          LET who == get_current_user(users, token) IN
          IF who.status # 200
          THEN /\ Responded("automation_run", token.sub, who.status, AuthError(who.status), "")
               /\ UNCHANGED awaiting
          ELSE /\ awaiting' = Append(awaiting, [id |-> runs + 1,
                                               email |-> users[who.id].email,
                                               api_key |-> users[who.id].api_key,
                                               reply |-> ""])
               /\ UNCHANGED blast
    /\ UNCHANGED users
    /\ UNCHANGED <<batchVars, sheetVars, serviceVars, workerVars, renderVars>>

\* POST /automation/run up to the await, the remote end left open (see
\* AutomationRunFinish).
AutomationRunStart ==
    /\ AutomationRunBegin
    /\ UNCHANGED wire

\* The sequence without its k-th element.
Without(q, k) == [i \in 1..(Len(q) - 1) |-> IF i < k THEN q[i] ELSE q[i + 1]]

\* POST /automation/run from the trigger's result to the response
AutomationRunFinish ==
    /\ \E k \in 1..Len(awaiting), outcome \in RemoteOutcomes :
          LET current_user == awaiting[k]
              result == trigger_automation(outcome)
          IN  /\ users' = increment_usage(users, current_user.email, 1, result)
              /\ Responded("automation_run", current_user.email, 200,
                           [status |-> "started", automationResponse |-> result],
                           outcome)
              /\ awaiting' = Without(awaiting, k)
    /\ UNCHANGED <<runs, wire>>
    /\ UNCHANGED <<batchVars, sheetVars, serviceVars, workerVars, renderVars>>

StatusText(status) == ToString(status)

\* POST /automation/run up to the await, with AUTOMATION_URL set to the
\* Automation Service's /run (automation_client.py, line 5): the POST is on
\* its way with headers = {"x-api-key": user_api_key}.
AutomationRunSend ==
    /\ AutomationRunBegin
    /\ wire' = IF Len(awaiting') > Len(awaiting)
               THEN Append(wire, [id |-> runs + 1,
                                  x_api_key |-> awaiting'[Len(awaiting')].api_key])
               ELSE wire

\* The Automation Service handles a trigger POST that has reached it, at any
\* time after it was sent: run() with the header the POST carries. Its status
\* is the reply to the automation_run request that sent it, if that request
\* is still waiting.
ServiceHandlesTrigger ==
    /\ \E m \in 1..Len(wire) :
          /\ RunHandler(wire[m].x_api_key)
          /\ awaiting' = [k \in 1..Len(awaiting) |->
                             IF awaiting[k].id = wire[m].id
                             THEN [awaiting[k] EXCEPT !.reply = StatusText(last'.status)]
                             ELSE awaiting[k]]
          /\ wire' = Without(wire, m)
    /\ UNCHANGED <<users, runs, blast>>
    /\ UNCHANGED <<batchVars, sheetVars, workerVars, renderVars>>

\* What "await client.post" comes to for a waiting request: the reply, once
\* the service has given one; a timeout (timeout=30) at any time, the POST
\* staying on its way if the service has not handled it; or, while the
\* service has not handled it, a failed connection, the POST never arriving.
TriggerOutcomes(e) ==
    IF e.reply # "" THEN {e.reply, "timeout"} ELSE {"timeout", "unreachable"}

\* POST /automation/run resumes after the await: trigger_automation returns,
\* increment_usage, the response.
AutomationRunResume ==
    /\ \E k \in 1..Len(awaiting) : \E outcome \in TriggerOutcomes(awaiting[k]) :
          LET current_user == awaiting[k]
              result == trigger_automation(outcome)
          IN  /\ users' = increment_usage(users, current_user.email, 1, result)
              /\ Responded("automation_run", current_user.email, 200,
                           [status |-> "started", automationResponse |-> result],
                           outcome)
              /\ awaiting' = Without(awaiting, k)
              /\ wire' = IF outcome = "unreachable"
                         THEN SelectSeq(wire, LAMBDA m : m.id # current_user.id)
                         ELSE wire
    /\ UNCHANGED runs
    /\ UNCHANGED <<batchVars, sheetVars, serviceVars, workerVars, renderVars>>

BackendInit ==
    /\ users = <<>>
    /\ awaiting = <<>>
    /\ runs = 0
    /\ blast = [op |-> "", email |-> "", password |-> "", status |-> 0,
                body |-> [detail |-> ""], outcome |-> "", before |-> <<>>]
    /\ wire = <<>>

WorkersIdle ==
    /\ wk = <<>>
    /\ begun = 0

\* The Backend with its trigger delivered to the Automation Service.
TriggerNext ==
    \/ Signup
    \/ RegenerateApiKey
    \/ AutomationRunSend
    \/ ServiceHandlesTrigger
    \/ AutomationRunResume

BackendNext ==
    \/ Signup
    \/ Login
    \/ GoogleCallback
    \/ RegenerateApiKey
    \/ AutomationRunStart
    \/ AutomationRunFinish

-----------------------------------------------------------------------------
(* The database layer under concurrent callers: each worker runs one call of
   database.py at a time, in its own session, one statement per step. *)

WorkerIds == {1, 2}

\* The database calls the handlers of main.py make that write the users
\* table: create_user (signup, line 115), regenerate_api_key (line 225),
\* increment_usage (automation_run, line 150). google_callback raises before
\* it reaches its get_user_by_email and create_user (see GoogleCallback).
HandlerCalls == {"create_user", "regenerate_api_key", "increment_usage"}

\* The public functions of database.py that write the users table: the three
\* above and update_user, which no handler calls.
DbCalls == HandlerCalls \cup {"update_user"}

\* A usage or plan dict as a set of <<key, value>> pairs; the empty dict is
\* falsy, as is a missing one.
NoDict == {}

\* The keyword arguments of update_user(email, **updates) the model calls it
\* with: nothing, usage counters, a plan with usage counters and an api_key
\* (set by setattr). email is the positional parameter that selects the row:
\* a call cannot pass it again as a keyword (TypeError), so no call changes
\* a row's email.
Updates ==
    {[api_key |-> None, usage |-> NoDict, plan |-> NoDict],
     [api_key |-> None, usage |-> {<<"monthlyEdits", 7>>}, plan |-> NoDict]}
    \cup {[api_key |-> k,
           usage |-> {<<"monthlyEdits", 7>>, <<"totalEdits", 9>>},
           plan |-> {<<"name", "Pro">>}] : k \in Keys}

NoUpdates == [api_key |-> None, usage |-> NoDict, plan |-> NoDict]

\* "key in d"
HasKey(d, key) == \E kv \in d : kv[1] = key

\* d[key]
Get(d, key) == (CHOOSE kv \in d : kv[1] = key)[2]

\* api_key, monthly_edits, total_edits and plan_name are the row's attributes
\* as the session loaded them; updates are update_user's keyword arguments.
IdleWorker ==
    [op |-> "", pc |-> "idle", email |-> "", key |-> "", id |-> 0, result |-> "",
     status |-> 0, api_key |-> "", monthly_edits |-> 0, total_edits |-> 0,
     plan_name |-> "", updates |-> NoUpdates]

create_user_integrity_error_unhandled == "IntegrityError"

\* create_user: "except IntegrityError: db.rollback(); raise ValueError(...)"
create_user_integrity_error ==
    "ValueError: User already exists or database constraint violated"

\* The ValueErrors create_user and regenerate_api_key raise.
ValueErrors ==
    {"ValueError: User already exists",
     "ValueError: User already exists or database constraint violated",
     "ValueError: User not found"}

\* The status the calling handler answers with once its database call has
\* returned or raised. signup maps create_user's ValueError to 400 and, after a
\* created user, raises in create_access_token (500); regenerate_api_key (the
\* handler) catches nothing and answers 200 with the new key; automation_run
\* answers 200 after increment_usage, which returns None in either case;
\* update_user has no handler (0: no response).
HandlerStatus(op, result) ==
    IF op = "create_user"
    THEN IF result \in ValueErrors THEN 400 ELSE 500
    ELSE IF op = "regenerate_api_key"
    THEN IF result = "regenerated" THEN 200 ELSE 500
    ELSE IF op = "increment_usage"
    THEN 200
    ELSE 0

\* The call of worker w returns or raises: the session is closed.
Returned(w, result) ==
    wk' = [wk EXCEPT ![w].pc = "idle", ![w].result = result,
                     ![w].status = HandlerStatus(wk[w].op, result)]

FirstPc(op) ==
    IF op = "create_user" THEN "check"
    ELSE IF op = "increment_usage" THEN "query"
    ELSE IF op = "update_user" THEN "find"
    ELSE "load"

\* A handler of main.py calls into database.py. regenerate_api_key and
\* automation_run come after get_current_user, which answers 404 unless the
\* user's row exists; rows are never deleted.
BeginHandlerCall(w) ==
    /\ wk[w].pc = "idle"
    /\ begun < MaxOps
    /\ begun' = begun + 1
    /\ \E op \in HandlerCalls, email \in Emails :
          /\ op # "create_user" => ByEmail(users, email) # 0
          /\ wk' = [wk EXCEPT ![w] = [IdleWorker EXCEPT !.op = op, !.pc = FirstPc(op),
                                                        !.email = email]]
    /\ UNCHANGED users

\* Any caller calls a public function of database.py, with any email:
\* db = _get_db()
BeginCall(w) ==
    /\ wk[w].pc = "idle"
    /\ begun < MaxOps
    /\ begun' = begun + 1
    /\ \E op \in DbCalls, email \in Emails :
          \E updates \in IF op = "update_user" THEN Updates ELSE {NoUpdates} :
             wk' = [wk EXCEPT ![w] = [IdleWorker EXCEPT !.op = op, !.pc = FirstPc(op),
                                                        !.email = email,
                                                        !.updates = updates]]
    /\ UNCHANGED users

\* create_user: existing_user = db.query(User).filter(User.email == email).first()
CheckExisting(w) ==
    /\ wk[w].pc = "check"
    /\ IF ByEmail(users, wk[w].email) # 0
       THEN Returned(w, "ValueError: User already exists")
       ELSE wk' = [wk EXCEPT ![w].pc = "genkey"]
    /\ UNCHANGED <<users, begun>>

\* regenerate_api_key: user = db.query(User).filter(User.email == email).first()
LoadUser(w) ==
    /\ wk[w].pc = "load"
    /\ IF ByEmail(users, wk[w].email) = 0
       THEN Returned(w, "ValueError: User not found")
       ELSE wk' = [wk EXCEPT ![w].pc = "genkey",
                             ![w].id = ByEmail(users, wk[w].email),
                             ![w].api_key = users[ByEmail(users, wk[w].email)].api_key]
    /\ UNCHANGED <<users, begun>>

\* _generate_api_key(db): returns a key no row holds at the time of its query
GenerateKey(w) ==
    /\ wk[w].pc = "genkey"
    /\ \E key \in _generate_api_key(users) :
          wk' = [wk EXCEPT ![w].pc = "commit", ![w].key = key]
    /\ UNCHANGED <<users, begun>>

\* db.add(user); db.commit() in create_user, user.api_key = new_key; db.commit()
\* in regenerate_api_key: the INSERT or UPDATE meets the UNIQUE constraints and
\* either commits or raises IntegrityError, leaving the table as it was.
\* create_user turns the IntegrityError into a ValueError; regenerate_api_key
\* has no handler and lets it escape. The session of regenerate_api_key sends
\* an UPDATE only when the assigned key differs from the key it loaded: when
\* they are equal the commit writes nothing, checks nothing, and the function
\* returns the key all the same.
Commit(w) ==
    /\ wk[w].pc = "commit"
    /\ IF wk[w].op = "regenerate_api_key"
       THEN IF wk[w].key = wk[w].api_key
            THEN /\ Returned(w, "regenerated")
                 /\ UNCHANGED users
            ELSE IF Unique(users, wk[w].id, users[wk[w].id].email, wk[w].key)
            THEN /\ users' = [users EXCEPT ![wk[w].id].api_key = wk[w].key]
                 /\ Returned(w, "regenerated")
            ELSE /\ Returned(w, "IntegrityError")
                 /\ UNCHANGED users
       ELSE IF Unique(users, 0, wk[w].email, wk[w].key)
            THEN /\ users' = Append(users, NewUser(wk[w].email, "p", wk[w].key))
                 /\ Returned(w, "created")
            ELSE /\ Returned(w, create_user_integrity_error)
                 /\ UNCHANGED users
    /\ UNCHANGED begun

\* increment_usage: user = db.query(User).filter(User.email == email).first();
\* "if not user: return". The session now holds the row as it was read.
QueryUsage(w) ==
    /\ wk[w].pc = "query"
    /\ LET id == ByEmail(users, wk[w].email) IN
          IF id = 0
          THEN Returned(w, "no user")
          ELSE wk' = [wk EXCEPT ![w].pc = "add", ![w].id = id,
                                ![w].monthly_edits = users[id].monthly_edits,
                                ![w].total_edits = users[id].total_edits]
    /\ UNCHANGED <<users, begun>>

\* increment_usage: user.monthly_edits += edits; user.total_edits += edits;
\* db.commit(). The sums are taken in Python from the attributes the session
\* loaded, and the UPDATE sets the columns to those sums. automation_run
\* passes edits = 1.
CommitUsage(w) ==
    /\ wk[w].pc = "add"
    /\ users' = [users EXCEPT ![wk[w].id].monthly_edits = wk[w].monthly_edits + 1,
                              ![wk[w].id].total_edits = wk[w].total_edits + 1]
    /\ Returned(w, "incremented")
    /\ UNCHANGED begun

\* update_user: user = db.query(User).filter(User.email == email).first();
\* "if not user: return None". The session now holds the row as it was read.
FindForUpdate(w) ==
    /\ wk[w].pc = "find"
    /\ LET id == ByEmail(users, wk[w].email) IN
          IF id = 0
          THEN Returned(w, "None")
          ELSE wk' = [wk EXCEPT ![w].pc = "set", ![w].id = id,
                                ![w].api_key = users[id].api_key,
                                ![w].monthly_edits = users[id].monthly_edits,
                                ![w].total_edits = users[id].total_edits,
                                ![w].plan_name = users[id].plan_name]
    /\ UNCHANGED <<users, begun>>

\* The value update_user assigns to an attribute, or the loaded value when it
\* assigns none.
Assigned(given, value, loaded) == IF given THEN value ELSE loaded

\* update_user: the assignments from usage, plan and the remaining keyword
\* arguments, then db.commit(). The UPDATE sets the columns whose assigned
\* value differs from the value the session loaded, to the assigned value;
\* it sets no other column (never email) and is not sent when there is none.
\* A new api_key meets the UNIQUE constraint; update_user has no handler for
\* the IntegrityError.
CommitUpdate(w) ==
    /\ wk[w].pc = "set"
    /\ LET u == wk[w].updates
           id == wk[w].id
           api_key == Assigned(u.api_key # None, u.api_key, wk[w].api_key)
           monthly_edits == Assigned(HasKey(u.usage, "monthlyEdits"),
                                     Get(u.usage, "monthlyEdits"), wk[w].monthly_edits)
           total_edits == Assigned(HasKey(u.usage, "totalEdits"),
                                   Get(u.usage, "totalEdits"), wk[w].total_edits)
           plan_name == Assigned(HasKey(u.plan, "name"), Get(u.plan, "name"),
                                 wk[w].plan_name)
           row == [users[id] EXCEPT
                     !.api_key = IF api_key # wk[w].api_key THEN api_key ELSE @,
                     !.monthly_edits = IF monthly_edits # wk[w].monthly_edits
                                       THEN monthly_edits ELSE @,
                     !.total_edits = IF total_edits # wk[w].total_edits
                                     THEN total_edits ELSE @,
                     !.plan_name = IF plan_name # wk[w].plan_name
                                   THEN plan_name ELSE @]
       IN IF Unique(users, id, row.email, row.api_key)
          THEN /\ users' = [users EXCEPT ![id] = row]
               /\ Returned(w, "updated")
          ELSE /\ Returned(w, "IntegrityError")
               /\ UNCHANGED users
    /\ UNCHANGED begun

\* A step of the database layer touches nothing else.
WorkerFrame ==
    /\ UNCHANGED <<awaiting, runs, blast, wire>>
    /\ UNCHANGED <<batchVars, sheetVars, serviceVars, renderVars>>

WorkersInit ==
    /\ wk = [w \in WorkerIds |-> IdleWorker]
    /\ begun = 0

\* The database calls of the handlers, interleaved.
WorkersNext ==
    \/ \E w \in WorkerIds : BeginHandlerCall(w) /\ WorkerFrame
    \/ \E w \in WorkerIds : CheckExisting(w) /\ WorkerFrame
    \/ \E w \in WorkerIds : LoadUser(w) /\ WorkerFrame
    \/ \E w \in WorkerIds : GenerateKey(w) /\ WorkerFrame
    \/ \E w \in WorkerIds : Commit(w) /\ WorkerFrame
    \/ \E w \in WorkerIds : QueryUsage(w) /\ WorkerFrame
    \/ \E w \in WorkerIds : CommitUsage(w) /\ WorkerFrame

\* The database layer as an interface: every public function that writes the
\* users table, called by any caller, interleaved.
DatabaseNext ==
    \/ \E w \in WorkerIds : BeginCall(w) /\ WorkerFrame
    \/ \E w \in WorkerIds : CheckExisting(w) /\ WorkerFrame
    \/ \E w \in WorkerIds : LoadUser(w) /\ WorkerFrame
    \/ \E w \in WorkerIds : GenerateKey(w) /\ WorkerFrame
    \/ \E w \in WorkerIds : Commit(w) /\ WorkerFrame
    \/ \E w \in WorkerIds : QueryUsage(w) /\ WorkerFrame
    \/ \E w \in WorkerIds : CommitUsage(w) /\ WorkerFrame
    \/ \E w \in WorkerIds : FindForUpdate(w) /\ WorkerFrame
    \/ \E w \in WorkerIds : CommitUpdate(w) /\ WorkerFrame

-----------------------------------------------------------------------------
(* Backend API: the claims *)

\* The row of blast.before that the last response's user had.
BeforeId == ByEmail(blast.before, blast.email)

\* C8: a POST /automation/run by an authenticated user that ran to its
\* response, whether the trigger succeeded or failed, has raised that user's
\* monthly_edits and total_edits by exactly 1 each and left every other
\* column of that row and every other row as they were.
C8_UsageIncrementedByOne ==
    (blast.op = "automation_run" /\ blast.outcome # "") =>
        /\ BeforeId # 0
        /\ Len(users) = Len(blast.before)
        /\ \A i \in 1..Len(users) :
              IF i = BeforeId
              THEN /\ users[i].monthly_edits = blast.before[i].monthly_edits + 1
                   /\ users[i].total_edits = blast.before[i].total_edits + 1
                   /\ users[i].email = blast.before[i].email
                   /\ users[i].hashed_password = blast.before[i].hashed_password
                   /\ users[i].api_key = blast.before[i].api_key
                   /\ users[i].plan_name = blast.before[i].plan_name
              ELSE users[i] = blast.before[i]

\* A run whose trigger timed out, counted as the user's second edit, beside
\* another user whose counters stay at 0.
C8_Witness ==
    /\ blast.op = "automation_run"
    /\ blast.outcome = "timeout"
    /\ Len(users) = 2
    /\ BeforeId # 0
    /\ users[BeforeId].monthly_edits = 2
    /\ users[BeforeId].total_edits = 2
    /\ \E i \in 1..Len(users) : i # BeforeId /\ users[i].total_edits = 0

\* C9 as stated: when the Automation Service is unreachable, times out or
\* answers a status other than 200, POST /automation/run answers its caller
\* with a failure status, which sets it apart from the answer to a trigger
\* that succeeded.
C9_AsStated ==
    (blast.op = "automation_run" /\ blast.outcome \in RemoteOutcomes \ {"200"}) =>
        /\ blast.status >= 400
        /\ blast.body # [status |-> "started", automationResponse |-> TRUE]

\* C12: a failed POST /auth/login never reveals which of email or password was
\* wrong: a login with an unregistered email and a login with a registered
\* email and a wrong password are both answered with status 400 and the one
\* body {"detail": "Incorrect email or password"}.
C12_LoginFailureUniform ==
    (/\ blast.op = "login"
     /\ \/ BeforeId = 0
        \/ blast.before[BeforeId].hashed_password # [bcrypt |-> blast.password]) =>
        /\ blast.status = 400
        /\ blast.body = [detail |-> "Incorrect email or password"]

\* A login with a registered email and a wrong password, answered 400, while
\* the other email is not registered.
C12_Witness ==
    /\ blast.op = "login"
    /\ BeforeId # 0
    /\ blast.before[BeforeId].hashed_password # [bcrypt |-> blast.password]
    /\ blast.status = 400
    /\ Len(users) = 1

\* C10: no two rows of the users table share an email, and no two share an
\* API key, in any interleaving of the statements of create_user (from
\* signup) and regenerate_api_key, and of every other writer of database.py
\* (increment_usage, update_user); the Google callback, which raises before
\* its lookup, adds no row.
C10_EmailAndKeyUnique ==
    \A i, j \in 1..Len(users) :
        i # j => (users[i].email # users[j].email /\ users[i].api_key # users[j].api_key)

\* Two users exist, and a regenerate_api_key whose key another commit took
\* first was refused by the UNIQUE constraint on api_key.
C10_Witness ==
    /\ Len(users) = 2
    /\ \E w \in WorkerIds : /\ wk[w].op = "regenerate_api_key"
                             /\ wk[w].result = "IntegrityError"

\* images/edited/edited_<row>.png, the file the static mount serves for
\* StatedUrl(row).
StatedPath(i) == "images/edited/edited_" \o ToString(i) \o ".png"

\* C22 as stated: after any sequence or interleaving of Row Processor runs, on
\* the same worksheet or on different ones, the URL stored in a row's output
\* cell refers to a file whose last write was the composition of that same
\* row of that same worksheet.
C22_AsStated ==
    \A key \in Loadable : \A i \in 1..Len(worksheets[key]) :
        Cell(worksheets[key], i, 3) = StatedUrl(i)
            => /\ StatedPath(i) \in DOMAIN disk
               /\ disk[StatedPath(i)] = [sheet |-> key, row |-> i]

\* C23 as stated: no usage increment is lost under concurrency: in any
\* interleaving of the steps of increment_usage, every call that completes for
\* a user leaves that user's monthly_edits and total_edits exactly one higher
\* than they were just before it completed (so N completed calls add N), and
\* no step ever lowers a counter.
C23_AsStated ==
    [][/\ \A w \in WorkerIds :
            (/\ wk[w].op = "increment_usage"
             /\ wk[w].id # 0
             /\ wk[w].pc # "idle"
             /\ wk'[w].pc = "idle")
                => /\ users'[wk[w].id].monthly_edits
                        = users[wk[w].id].monthly_edits + 1
                   /\ users'[wk[w].id].total_edits
                        = users[wk[w].id].total_edits + 1
       /\ \A i \in 1..Len(users) :
            /\ users'[i].monthly_edits >= users[i].monthly_edits
            /\ users'[i].total_edits >= users[i].total_edits]_vars

\* Some registered user holds the key.
HeldByUser(key) == \E i \in 1..Len(users) : users[i].api_key = key

\* C21 as stated: the key the Backend sends is the key the Automation Service
\* checks: every trigger POST of POST /automation/run carries in x-api-key the
\* api_key of the user who asked, also after a regeneration; once the service
\* has handled such a trigger it has not answered it 401, and a key that no
\* registered user holds does not pass the service's key check.
C21_AsStated ==
    /\ \A m \in 1..Len(wire) : \A k \in 1..Len(awaiting) :
          awaiting[k].id = wire[m].id => wire[m].x_api_key = awaiting[k].api_key
    /\ last.req.path = "/run" =>
          /\ last.req.x_api_key \in Keys
          /\ last.status # 401
          /\ \A key \in Keys \cup ApiKeys :
                ~HeldByUser(key) => ~verify_api_key(key, "/run")

\* C11 as stated: an API-key collision is never surfaced: a call of
\* regenerate_api_key never ends with the IntegrityError of a key that was
\* taken before its commit, and a call of create_user never ends with an
\* error for an email that no user holds, also when such operations
\* interleave.
C11_AsStated ==
    [][\A w \in WorkerIds :
          (/\ wk[w].op \in {"create_user", "regenerate_api_key"}
           /\ wk[w].pc # "idle"
           /\ wk'[w].pc = "idle")
              => /\ wk'[w].result # "IntegrityError"
                 /\ wk'[w].result
                       = "ValueError: User already exists or database constraint violated"
                    => ByEmail(users, wk[w].email) # 0]_vars

\* Two create_user calls of signup for one email have both passed the
\* existence check and both ended.
BothSignedUp ==
    /\ \A w \in WorkerIds :
          /\ wk[w].op = "create_user"
          /\ wk[w].pc = "idle"
          /\ wk[w].result \in
                {"created", "ValueError: User already exists or database constraint violated"}
    /\ \A v, w \in WorkerIds : wk[v].email = wk[w].email

\* C13: a signup's create_user that ends while its email is registered
\* answers 400 and leaves the users table as it was (no row added, the
\* existing row untouched); and of two signups for one new email that both
\* passed the existence check, exactly one created the user (one row holds
\* the email) and the other was answered 400.
C13_DuplicateSignupRefused ==
    [][/\ \A w \in WorkerIds :
             (/\ wk[w].op = "create_user"
              /\ wk[w].pc # "idle"
              /\ wk'[w].pc = "idle"
              /\ ByEmail(users, wk[w].email) # 0)
                 => /\ wk'[w].status \in 400..499
                    /\ users' = users
       /\ BothSignedUp' =>
             /\ Cardinality({w \in WorkerIds : wk'[w].result = "created"}) = 1
             /\ \A w \in WorkerIds :
                   wk'[w].result # "created" => wk'[w].status \in 400..499
             /\ Cardinality({i \in 1..Len(users') :
                                users'[i].email = wk'[1].email}) = 1
      ]_vars

\* Two signups for one new email raced past the existence check: one created
\* the user, the other met the UNIQUE constraint and was answered 400.
C13_Witness ==
    /\ BothSignedUp
    /\ \E v, w \in WorkerIds :
          /\ wk[v].result = "created"
          /\ wk[w].result = "ValueError: User already exists or database constraint violated"
          /\ wk[w].status = 400
    /\ Len(users) = 1

-----------------------------------------------------------------------------
(* Text Layout: image_composer.py (split_two_lines, the font decision of
   compose_image) and composer_utils.py (wrap_text).  A Python string is a
   sequence of one-character strings. *)

\* The characters the texts of the model are written in.
Chars == {"a", "b", " "}

Texts == UNION {[1..n -> Chars] : n \in 0..MaxLen}

BADGE_SIZE == 200
FONT_SIZE == 70
TWO_LINE_FONT_SIZE == 50
MARGIN == 40

\* CANVAS_SIZE[0]
CANVAS_WIDTH == 1080

\* ImageFont.truetype("arialbd.ttf", size)
truetype(size) == [face |-> "arialbd.ttf", size |-> size]

\* ImageFont.load_default(): the built-in bitmap font
load_default == [face |-> "default", size |-> 12]

\* "try: truetype(...) except: load_default()" for font_main and font_small
LoadFonts(found) ==
    IF found
    THEN [font_main |-> truetype(FONT_SIZE), font_small |-> truetype(TWO_LINE_FONT_SIZE)]
    ELSE [font_main |-> load_default, font_small |-> load_default]

Fonts == {truetype(FONT_SIZE), truetype(TWO_LINE_FONT_SIZE), load_default}

\* The widths a caller wraps to: the badge's usable width and a narrow one.
MaxWidths == {60, 150}

\* draw.textlength(text, font=font): in the model every character, the space
\* included, advances half the font size.
textlength(text, font) == Len(text) * (font.size \div 2)

RECURSIVE SplitFrom(_, _)
\* The rest of text.split(" ") when the word begun so far is word.
SplitFrom(text, word) ==
    IF text = <<>> THEN <<word>>
    ELSE IF Head(text) = " " THEN <<word>> \o SplitFrom(Tail(text), <<>>)
    ELSE SplitFrom(Tail(text), Append(word, Head(text)))

\* text.split(" "): every space separates, so empty words can occur
split_sep(text) == SplitFrom(text, <<>>)

\* text.split(): runs of whitespace separate, no empty words
split(text) == SelectSeq(split_sep(text), LAMBDA w : w # <<>>)

RECURSIVE lstrip(_)
lstrip(s) == IF s # <<>> /\ Head(s) = " " THEN lstrip(Tail(s)) ELSE s

RECURSIVE rstrip(_)
rstrip(s) == IF s # <<>> /\ s[Len(s)] = " " THEN rstrip(SubSeq(s, 1, Len(s) - 1)) ELSE s

\* s.strip()
strip(s) == rstrip(lstrip(s))

\* (current + " " + w).strip()
TestLine(current, w) == strip(current \o <<" ">> \o w)

\* One pass of the body of "for w in words" in split_two_lines, on the loop's
\* state; broke: the loop has left through "if len(lines) == 2: break".
SplitStep(st, w, font, max_width) ==
    IF st.broke THEN st
    ELSE LET test == TestLine(st.current, w)
             fits == textlength(test, font) <= max_width
             lines == IF fits \/ st.current = <<>> THEN st.lines
                      ELSE Append(st.lines, st.current)
         IN  [lines |-> lines,
              current |-> IF fits THEN test ELSE w,
              broke |-> Len(lines) = 2]

RECURSIVE SplitLoop(_, _, _, _)
SplitLoop(st, words, font, max_width) ==
    IF words = <<>> THEN st
    ELSE SplitLoop(SplitStep(st, Head(words), font, max_width), Tail(words),
                   font, max_width)

\* split_two_lines(draw, text, font, max_width)
split_two_lines(text, font, max_width) ==
    LET st == SplitLoop([lines |-> <<>>, current |-> <<>>, broke |-> FALSE],
                        split_sep(text), font, max_width)
        lines == IF st.current # <<>> /\ Len(st.lines) < 2
                 THEN Append(st.lines, st.current) ELSE st.lines
    IN  SubSeq(lines, 1, IF Len(lines) < 2 THEN Len(lines) ELSE 2)

WrapStepMeasuresWord(st, w, font, max_width) ==
    IF textlength(w, font) <= max_width
    THEN [lines |-> st.lines, current |-> TestLine(st.current, w)]
    ELSE [lines |-> Append(st.lines, st.current), current |-> w]

\* One pass of the body of "for w in words" in wrap_text.
WrapStep(st, w, font, max_width) ==
    IF textlength(TestLine(st.current, w), font) <= max_width
    THEN [lines |-> st.lines, current |-> TestLine(st.current, w)]
    ELSE [lines |-> Append(st.lines, st.current), current |-> w]

RECURSIVE WrapLoop(_, _, _, _)
WrapLoop(st, words, font, max_width) ==
    IF words = <<>> THEN st
    ELSE WrapLoop(WrapStep(st, Head(words), font, max_width), Tail(words),
                  font, max_width)

\* wrap_text(draw, text, font, max_width)
wrap_text(text, font, max_width) ==
    LET st == WrapLoop([lines |-> <<>>, current |-> <<>>], split(text), font, max_width)
    IN  IF st.current # <<>> THEN Append(st.lines, st.current) ELSE st.lines

\* max_w = badge_size * 0.75
max_w == (BADGE_SIZE * 3) \div 4

-----------------------------------------------------------------------------
(* Image Compositor: get_contrast_color *)

\* The character of code point n, for the characters a string of this module
\* cannot spell (the vertical tab and everything beyond ASCII).
Chr(n) == "U+" \o ToString(n)

\* The digits the colors of the model are written in.
ColorDigits == {"0", "9", "A", "f"}

\* A badge color: six digits with or without a leading "#", and some strings
\* that are no colors, among them strings of six characters with a sign or a
\* blank in them.
HexColors ==
    [1..6 -> ColorDigits]
    \cup {<<"#">> \o h : h \in [1..6 -> ColorDigits]}
    \cup {<<>>, <<"#">>, <<"f", "f", "f">>, <<"#", "f", "f", "f">>,
          <<"g", "0", "0", "0", "0", "0">>, <<"#", "0", "0", "0", "0", "0", "g">>,
          <<"+", "f", "f", "f", "f", "f">>, <<"-", "f", "f", "f", "f", "f">>,
          <<" ", "f", "f", "f", "f", "f">>, <<"f", "f", "f", "f", " ", "f">>,
          <<"f", "f", "f", "f", "f", " ">>, <<"#", "+", "f", "f", "f", "f", "f">>,
          <<"f", "f", "+", " ", "f", "f">>, <<"f", "f", " ", "-", "f", "f">>,
          <<"f", "f", " ", " ", "f", "f">>, <<"0", "x", "f", "f", "f", "f">>,
          <<"f", "_", "f", "f", "f", "f">>, <<"-", "1", "0", "0", "0", "0">>,
          <<Chr(11), "f", "f", "f", "f", "f">>, <<"f", "f", "f", "f", "f", Chr(11)>>,
          <<Chr(160), "f", "f", "f", "f", "f">>, <<"f", "f", "f", Chr(133), "f", "f">>,
          <<"f", "f", Chr(12288), "f", "f", "f">>, <<"f", "f", "f", "f", Chr(28), "f">>,
          <<"f", Chr(1641), "f", Chr(1641), "f", Chr(1641)>>,
          <<Chr(65297), Chr(65296), "0", "0", "0", "0">>,
          <<"+", Chr(2415), "f", "f", "f", "f">>, <<Chr(65313), "0", "0", "0", "0", "0">>,
          <<"f", "f", "\t", "f", "f", "\n">>}

LowerHex == <<"0", "1", "2", "3", "4", "5", "6", "7", "8", "9", "a", "b", "c", "d", "e", "f">>

UpperHex == <<"0", "1", "2", "3", "4", "5", "6", "7", "8", "9", "A", "B", "C", "D", "E", "F">>

\* The code points of the digit zero of every run of decimal digits beyond
\* ASCII (Unicode 14: Arabic-Indic, Devanagari, fullwidth, ...); the other nine
\* digits of a run follow their zero. int() reads each as its ASCII digit.
DecimalZeros ==
    {1632, 1776, 1984, 2406, 2534, 2662, 2790, 2918,
     3046, 3174, 3302, 3430, 3558, 3664, 3792, 3872,
     4160, 4240, 6112, 6160, 6470, 6608, 6784, 6800,
     6992, 7088, 7232, 7248, 42528, 43216, 43264, 43472,
     43504, 43600, 44016, 65296, 66720, 68912, 69734, 69872,
     69942, 70096, 70384, 70736, 70864, 71248, 71360, 71472,
     71904, 72016, 72784, 73040, 73120, 92768, 92864, 93008,
     120782, 120792, 120802, 120812, 120822, 123200, 123632, 125264,
     130032}

\* The value of one hexadecimal digit of either case or of one decimal digit
\* of any script, -1 for any other character.
HexVal(c) ==
    IF \E k \in 1..16 : LowerHex[k] = c \/ UpperHex[k] = c
    THEN (CHOOSE k \in 1..16 : LowerHex[k] = c \/ UpperHex[k] = c) - 1
    ELSE IF \E z \in DecimalZeros, d \in 0..9 : c = Chr(z + d)
    THEN CHOOSE d \in 0..9 : \E z \in DecimalZeros : c = Chr(z + d)
    ELSE -1

\* The characters int() strips from both ends of its argument: tab, line
\* feed, vertical tab, form feed, carriage return, space, U+0085, U+00A0,
\* U+1680, U+2000 to U+200A, U+2028, U+2029, U+202F, U+205F, U+3000.
Whitespace ==
    {" ", "\t", "\n", "\r", "\f"}
    \cup {Chr(n) : n \in {11, 133, 160, 5760} \cup (8192..8202)
                        \cup {8232, 8233, 8239, 8287, 12288}}

ValueError == [raised |-> TRUE, value |-> 0]

Parsed(n) == [raised |-> FALSE, value |-> n]

\* int(s, 16) of a two-character slice: two hexadecimal digits; or a sign and
\* one digit; or one digit with a blank before or after it. Everything else
\* ("0x", an underscore, a sign or a blank alone, any other character) is a
\* ValueError.
int16(s) ==
    IF HexVal(s[1]) >= 0 /\ HexVal(s[2]) >= 0
    THEN Parsed(16 * HexVal(s[1]) + HexVal(s[2]))
    ELSE IF s[1] = "+" /\ HexVal(s[2]) >= 0 THEN Parsed(HexVal(s[2]))
    ELSE IF s[1] = "-" /\ HexVal(s[2]) >= 0 THEN Parsed(0 - HexVal(s[2]))
    ELSE IF s[1] \in Whitespace /\ HexVal(s[2]) >= 0 THEN Parsed(HexVal(s[2]))
    ELSE IF HexVal(s[1]) >= 0 /\ s[2] \in Whitespace THEN Parsed(HexVal(s[1]))
    ELSE ValueError

\* hex_color.replace("#", "")
replace_hash(hex_color) == SelectSeq(hex_color, LAMBDA c : c # "#")

get_contrast_color_at_least(hex_color) ==
    LET h == replace_hash(hex_color) IN
    IF Len(h) # 6 THEN "white"
    ELSE LET r == int16(SubSeq(h, 1, 2))
             g == int16(SubSeq(h, 3, 4))
             b == int16(SubSeq(h, 5, 6))
         IN  IF r.raised \/ g.raised \/ b.raised THEN "white"
             ELSE IF r.value * 299 + g.value * 587 + b.value * 114 >= 160 * 1000
             THEN "black"
             ELSE "white"

\* get_contrast_color(hex_color). brightness = (r*299 + g*587 + b*114) / 1000
\* is compared with 160; the model compares the thousandfold of both.
get_contrast_color(hex_color) ==
    LET h == replace_hash(hex_color) IN
    IF Len(h) # 6 THEN "white"
    ELSE LET r == int16(SubSeq(h, 1, 2))
             g == int16(SubSeq(h, 3, 4))
             b == int16(SubSeq(h, 5, 6))
         IN  IF r.raised \/ g.raised \/ b.raised THEN "white"
             ELSE IF r.value * 299 + g.value * 587 + b.value * 114 > 160 * 1000
             THEN "black"
             ELSE "white"

-----------------------------------------------------------------------------
(* Shape Renderer: badge_shapes.py *)

UpperCase ==
    <<"A", "B", "C", "D", "E", "F", "G", "H", "I", "J", "K", "L", "M",
      "N", "O", "P", "Q", "R", "S", "T", "U", "V", "W", "X", "Y", "Z">>

LowerCase ==
    <<"a", "b", "c", "d", "e", "f", "g", "h", "i", "j", "k", "l", "m",
      "n", "o", "p", "q", "r", "s", "t", "u", "v", "w", "x", "y", "z">>

lower_unchanged(s) == s

\* s.lower()
lower(s) ==
    [k \in 1..Len(s) |->
        IF \E j \in 1..26 : UpperCase[j] = s[k]
        THEN LowerCase[CHOOSE j \in 1..26 : UpperCase[j] = s[k]]
        ELSE s[k]]

\* The character in capital, for building the names of the model.
Capital(c) ==
    IF \E j \in 1..26 : LowerCase[j] = c
    THEN UpperCase[CHOOSE j \in 1..26 : LowerCase[j] = c]
    ELSE c

RECURSIVE AnyCase(_)
\* The spellings of a lower-case name in every mix of letter cases.
AnyCase(name) ==
    IF name = <<>> THEN {<<>>}
    ELSE {<<c>> \o rest : c \in {Head(name), Capital(Head(name))},
                          rest \in AnyCase(Tail(name))}

Circle == <<"c", "i", "r", "c", "l", "e">>

Starburst15 == <<"s", "t", "a", "r", "b", "u", "r", "s", "t", "_", "1", "5">>

NoShape == <<"n", "o", "n", "e">>

\* Names no branch of get_polygon_for_shape recognises.
UnknownNames ==
    {<<>>, <<"s", "q", "u", "a", "r", "e">>, <<"c", "i", "r", "c", "l", "e", " ">>,
     <<"s", "t", "a", "r", "b", "u", "r", "s", "t">>,
     <<"s", "t", "a", "r", "b", "u", "r", "s", "t", "-", "1", "5">>,
     <<"N", "o", "n", "e", "!">>}

ShapeNames == AnyCase(Circle) \cup AnyCase(Starburst15) \cup AnyCase(NoShape) \cup UnknownNames

\* Top-left anchors and sizes of the badge box; compose_image uses
\* (CANVAS_SIZE[0] - badge_size - MARGIN, MARGIN) and BADGE_SIZE.
Anchors == {<<0, 0>>, <<CANVAS_WIDTH - BADGE_SIZE - MARGIN, MARGIN>>}

Sizes == {0, 7, BADGE_SIZE}

\* "for i in range(30)"
StarVertices == 30

StarRadiusSwapped(i, size) == IF i % 2 = 0 THEN size * 35 ELSE size * 50

\* r = size * 0.5 if i % 2 == 0 else size * 0.35, in hundredths
StarRadius(i, size) == IF i % 2 = 0 THEN size * 50 ELSE size * 35

\* Vertex i of the starburst: (center_x + r*cos(angle), center_y + r*sin(angle))
\* with angle = (i / 30) * 2*pi, kept in polar form: the centre, the radius in
\* hundredths and the angle as the fraction turn[1] / turn[2] of a full turn.
StarPoint(i, center_x, center_y, size) ==
    [center |-> <<center_x, center_y>>, r100 |-> StarRadius(i, size),
     turn |-> <<i, StarVertices>>]

\* get_polygon_for_shape(shape_type, x, y, size)
get_polygon_for_shape(shape_type, x, y, size) ==
    IF lower(shape_type) = Circle
    THEN [shape |-> "circle", data |-> <<x + size \div 2, y + size \div 2, size \div 2>>]
    ELSE IF lower(shape_type) = Starburst15
    THEN [shape |-> "polygon",
          data |-> [k \in 1..StarVertices |->
                       StarPoint(k - 1, x + size \div 2, y + size \div 2, size)]]
    ELSE IF lower(shape_type) = NoShape
    THEN [shape |-> "none", data |-> <<>>]
    ELSE [shape |-> "circle", data |-> <<x + size \div 2, y + size \div 2, size \div 2>>]

\* draw_shape(draw, shape_type, fill_color, x, y, size): the calls it makes on draw
draw_shape(shape_type, fill_color, x, y, size) ==
    LET got == get_polygon_for_shape(shape_type, x, y, size) IN
    IF got.shape = "circle"
    THEN <<[op |-> "ellipse",
            xy |-> <<got.data[1] - got.data[3], got.data[2] - got.data[3],
                     got.data[1] + got.data[3], got.data[2] + got.data[3]>>,
            fill |-> fill_color]>>
    ELSE IF got.shape = "polygon"
    THEN <<[op |-> "polygon", xy |-> got.data, fill |-> fill_color]>>
    ELSE <<>>

\* badge_color of compose_image when the caller names none
DefaultBadgeColor == <<"#", "F", "F", "0", "0", "0", "0">>

\* compose_image from the badge on: the shape drawn, the text color, and the
\* price text laid out (steps 3 and 4).
compose_image(price_text, badge_type, badge_color, fonts_found) ==
    LET fonts == LoadFonts(fonts_found)
        first == split_two_lines(price_text, fonts.font_main, max_w)
        use_font == IF Len(first) = 2 THEN fonts.font_small ELSE fonts.font_main
    IN  [drawn |-> draw_shape(lower(badge_type), badge_color,
                              CANVAS_WIDTH - BADGE_SIZE - MARGIN, MARGIN, BADGE_SIZE),
         text_color |-> get_contrast_color(badge_color),
         use_font |-> use_font,
         lines |-> split_two_lines(price_text, use_font, max_w)]

-----------------------------------------------------------------------------
(* One call of a function of the three components *)

RenderIdle ==
    /\ fn = ""
    /\ args = <<>>
    /\ returned = FALSE
    /\ ret = <<>>

RenderInit ==
    /\ returned = FALSE
    /\ ret = <<>>
    /\ \/ /\ fn = "get_contrast_color"
          /\ args \in [hex_color : HexColors]
       \/ /\ fn \in {"split_two_lines", "wrap_text"}
          /\ args \in [text : Texts, font : Fonts, max_width : MaxWidths]
       \/ /\ fn = "compose_image"
          /\ args \in [price_text : Texts, badge_type : {Circle},
                       badge_color : {DefaultBadgeColor}, fonts_found : BOOLEAN]
       \/ /\ fn \in {"get_polygon_for_shape", "draw_shape"}
          /\ args \in [shape_type : ShapeNames, xy : Anchors, size : Sizes]

\* The call returns value.
Return(value) ==
    /\ returned' = TRUE
    /\ ret' = value
    /\ UNCHANGED <<fn, args>>
    /\ UNCHANGED <<batchVars, sheetVars, serviceVars, backendVars, workerVars>>

GetContrastColor ==
    /\ fn = "get_contrast_color" /\ ~returned
    /\ Return(get_contrast_color(args.hex_color))

SplitTwoLines ==
    /\ fn = "split_two_lines" /\ ~returned
    /\ Return(split_two_lines(args.text, args.font, args.max_width))

WrapText ==
    /\ fn = "wrap_text" /\ ~returned
    /\ Return(wrap_text(args.text, args.font, args.max_width))

ComposeBadge ==
    /\ fn = "compose_image" /\ ~returned
    /\ Return(compose_image(args.price_text, args.badge_type, args.badge_color,
                            args.fonts_found))

GetPolygonForShape ==
    /\ fn = "get_polygon_for_shape" /\ ~returned
    /\ Return(get_polygon_for_shape(args.shape_type, args.xy[1], args.xy[2], args.size))

DrawShape ==
    /\ fn = "draw_shape" /\ ~returned
    /\ Return(draw_shape(args.shape_type, DefaultBadgeColor, args.xy[1], args.xy[2],
                         args.size))

RenderNext ==
    GetContrastColor \/ SplitTwoLines \/ WrapText \/ ComposeBadge
        \/ GetPolygonForShape \/ DrawShape

-----------------------------------------------------------------------------
(* Image Compositor, Text Layout, Shape Renderer: the claims *)

RECURSIVE WordsOf(_)
\* The words of the lines, in order.
WordsOf(lines) ==
    IF lines = <<>> THEN <<>> ELSE split(Head(lines)) \o WordsOf(Tail(lines))

\* C14 as stated: with both fonts loaded, a price text whose width at size 70
\* exceeds the badge's usable width of 150 is laid out by compose_image at
\* size 50, and no price text is drawn on more than two lines.
C14_AsStated ==
    (fn = "compose_image" /\ returned /\ args.fonts_found) =>
        /\ Len(args.price_text) * 35 > 150 => ret.use_font.size = 50
        /\ Len(ret.lines) <= 2

\* The six digits of a color written with or without a leading "#".
Digits(hex_color) ==
    IF Len(hex_color) = 7 THEN SubSeq(hex_color, 2, 7) ELSE hex_color

\* A 6-digit hex color with or without a leading "#".
IsHexColor(hex_color) ==
    /\ Len(hex_color) \in {6, 7}
    /\ Len(hex_color) = 7 => hex_color[1] = "#"
    /\ \A k \in 1..6 : HexVal(Digits(hex_color)[k]) >= 0

\* 299*R + 587*G + 114*B: the luminance times 1000.
Luminance1000(hex_color) ==
    LET d == Digits(hex_color)
        R == 16 * HexVal(d[1]) + HexVal(d[2])
        G == 16 * HexVal(d[3]) + HexVal(d[4])
        B == 16 * HexVal(d[5]) + HexVal(d[6])
    IN  299 * R + 587 * G + 114 * B

\* C15: for every 6-digit hex color, with or without a leading "#",
\* get_contrast_color returns black exactly when the luminance
\* (299*R + 587*G + 114*B) / 1000 is strictly greater than 160 and white
\* otherwise; at #A0A0A0, luminance exactly 160, it returns white.
C15_ContrastByLuminance ==
    (fn = "get_contrast_color" /\ returned /\ IsHexColor(args.hex_color)) =>
        /\ ret = "black" <=> Luminance1000(args.hex_color) > 160000
        /\ ret = "white" <=> Luminance1000(args.hex_color) <= 160000
        /\ Digits(args.hex_color) = <<"A", "0", "A", "0", "A", "0">> => ret = "white"
        /\ Digits(args.hex_color) = <<"A", "0", "A", "0", "A", "A">> => ret = "black"
        /\ Digits(args.hex_color) = <<"A", "0", "A", "0", "9", "f">> => ret = "white"
        /\ Digits(args.hex_color) = <<"f", "f", "f", "f", "f", "f">> => ret = "black"
        /\ Digits(args.hex_color) = <<"0", "0", "0", "0", "0", "0">> => ret = "white"

\* The boundary color #A0A0A0 was answered with white.
C15_Witness ==
    /\ fn = "get_contrast_color"
    /\ returned
    /\ args.hex_color = <<"#", "A", "0", "A", "0", "A", "0">>
    /\ ret = "white"

\* name spells word in some mix of letter cases.
Spells(name, word) ==
    /\ Len(name) = Len(word)
    /\ \A k \in 1..Len(word) : name[k] = word[k] \/ name[k] = Capital(word[k])

\* C16: get_polygon_for_shape returns the circle inscribed in the box for
\* "circle" in any letter case and for every unrecognized name, the polygon
\* of 30 vertices for "starburst_15" in any letter case, and no shape for
\* "none" in any letter case; draw_shape draws nothing for "none" and one
\* figure for every other name.
C16_ShapeNameNeverRaises ==
    /\ (fn = "get_polygon_for_shape" /\ returned) =>
          IF Spells(args.shape_type, <<"s", "t", "a", "r", "b", "u", "r", "s", "t", "_", "1", "5">>)
          THEN ret.shape = "polygon" /\ Len(ret.data) = 30
          ELSE IF Spells(args.shape_type, <<"n", "o", "n", "e">>)
          THEN ret.shape = "none" /\ ret.data = <<>>
          ELSE /\ ret.shape = "circle"
               /\ ret.data = <<args.xy[1] + args.size \div 2,
                               args.xy[2] + args.size \div 2, args.size \div 2>>
    /\ (fn = "draw_shape" /\ returned) =>
          IF Spells(args.shape_type, <<"n", "o", "n", "e">>)
          THEN ret = <<>>
          ELSE /\ Len(ret) = 1
               /\ ret[1].op =
                     IF Spells(args.shape_type,
                               <<"s", "t", "a", "r", "b", "u", "r", "s", "t", "_", "1", "5">>)
                     THEN "polygon" ELSE "ellipse"

\* draw_shape was called with "NoNE" and drew nothing.
C16_Witness ==
    /\ fn = "draw_shape"
    /\ returned
    /\ args.shape_type = <<"N", "o", "N", "E">>
    /\ ret = <<>>

\* C18 as stated: split_two_lines returns at most two lines and loses no
\* text: the words of the returned lines are the words of the input, each
\* once and in the input's order.
C18_AsStated ==
    (fn = "split_two_lines" /\ returned) =>
        /\ Len(ret) <= 2
        /\ WordsOf(ret) = split(args.text)

\* C19 as stated: every line wrap_text returns is at most max_width wide,
\* for every text and every max_width.
C19_AsStated ==
    (fn = "wrap_text" /\ returned) =>
        \A k \in 1..Len(ret) : textlength(ret[k], args.font) <= args.max_width

\* The line that holds line followed by the word w.
Extended(line, w) == IF line = <<>> THEN w ELSE line \o <<" ">> \o w

\* C19 amended: wrap_text wraps greedily by whole words: a returned line is
\* wider than max_width only if it is a single word that alone is wider; the
\* lines hold the words of the text, each once and in order; a line is closed
\* only when the next word would overflow it; and an empty line can only come
\* first, before a first word that is too wide.
C19_WrapsGreedilyByWords ==
    (fn = "wrap_text" /\ returned) =>
        /\ \A k \in 1..Len(ret) :
              \/ textlength(ret[k], args.font) <= args.max_width
              \/ \A j \in 1..Len(ret[k]) : ret[k][j] # " "
        /\ WordsOf(ret) = split(args.text)
        /\ \A k \in 1..(Len(ret) - 1) :
              textlength(Extended(ret[k], split(ret[k + 1])[1]), args.font)
                  > args.max_width
        /\ \A k \in 1..Len(ret) : ret[k] = <<>> => k = 1

\* A text whose first word is wider than max_width: an empty line, the wide
\* word alone on its line, and the rest.
C19_Witness ==
    /\ fn = "wrap_text"
    /\ returned
    /\ Len(ret) = 3
    /\ ret[1] = <<>>
    /\ textlength(ret[2], args.font) > args.max_width
    /\ textlength(ret[3], args.font) <= args.max_width

\* C20: the starburst_15 polygon has exactly 30 vertices; vertex i lies at
\* the fraction i/30 of a full turn around the centre of the box, at the
\* outer radius 0.5 x size when i is even and at the inner radius 0.35 x size
\* when i is odd, so that the radii of neighbouring vertices differ.
C20_StarburstAlternates ==
    (fn = "get_polygon_for_shape" /\ returned /\ ret.shape = "polygon") =>
        /\ Len(ret.data) = 30
        /\ \A i \in 0..29 :
              /\ ret.data[i + 1].center =
                    <<args.xy[1] + args.size \div 2, args.xy[2] + args.size \div 2>>
              /\ ret.data[i + 1].turn = <<i, 30>>
              /\ ret.data[i + 1].r100 =
                    IF i % 2 = 0 THEN 50 * args.size ELSE 35 * args.size
        /\ args.size > 0 =>
              \A i \in 1..29 : ret.data[i].r100 # ret.data[i + 1].r100

\* The starburst of an odd-sized box away from the origin.
C20_Witness ==
    /\ fn = "get_polygon_for_shape"
    /\ returned
    /\ ret.shape = "polygon"
    /\ args.size = 7
    /\ args.xy = <<840, 40>>
    /\ ret.data[2].r100 = 245

-----------------------------------------------------------------------------

Init == SheetInit /\ ServiceInit /\ BackendInit /\ WorkersIdle /\ RenderIdle /\ BatchIdle

Next == SheetNext

Spec == Init /\ [][Next]_vars

InitService == ServiceInit /\ SheetIdle /\ BackendInit /\ WorkersIdle /\ RenderIdle /\ BatchIdle

SpecService == InitService /\ [][ServiceNext]_vars

InitBackend == BackendInit /\ SheetIdle /\ ServiceInit /\ WorkersIdle /\ RenderIdle /\ BatchIdle

SpecBackend == InitBackend /\ [][BackendNext]_vars

InitWorkers == WorkersInit /\ BackendInit /\ SheetIdle /\ ServiceInit /\ RenderIdle /\ BatchIdle

SpecWorkers == InitWorkers /\ [][WorkersNext]_vars

SpecDatabase == InitWorkers /\ [][DatabaseNext]_vars

InitRender == RenderInit /\ SheetIdle /\ ServiceInit /\ BackendInit /\ WorkersIdle /\ BatchIdle

SpecRender == InitRender /\ [][RenderNext]_vars

InitTrigger == BackendInit /\ ServiceInit /\ SheetIdle /\ WorkersIdle /\ RenderIdle /\ BatchIdle

SpecTrigger == InitTrigger /\ [][TriggerNext]_vars

InitBatch ==
    BatchInit /\ SheetIdle /\ ServiceInit /\ BackendInit /\ WorkersIdle /\ RenderIdle

SpecBatch == InitBatch /\ [][BatchNext]_vars

=============================================================================
